---- MODULE Spec2Model ----
(***************************************************************************)
(* Model of agemcp:                                                        *)
(*   - LRUCache (lru_cache.py): an OrderedDict with a capacity,            *)
(*   - DatabaseConnectionSettings (database_connection_settings.py): the   *)
(*     ContextVar-cached async engine / sessionmaker, dispose, and the     *)
(*     session / transaction context managers,                             *)
(*   - the agtype decoders and AgtypeRecord (db.py).                       *)
(***************************************************************************)
EXTENDS Integers, Sequences, FiniteSets, TLC

(***************************************************************************)
(* Bounds                                                                  *)
(***************************************************************************)
\* largest capacity an LRUCache is constructed with
MaxCap == 3
\* number of distinct values stored in an LRUCache
MaxVal == 2

\* Python's None, for keys/values drawn from 1..n
None == 0

\* Python's None, for a reference to an engine or a sessionmaker
Nil == <<>>

\* one key more than the largest capacity, so a full cache still meets a new key
Keys == 1 .. (MaxCap + 1)
Vals == 1 .. MaxVal

\* number of concurrently running callers (asyncio tasks)
NumTasks == 2

Tasks == 1 .. NumTasks

\* number of callers that run transactions when transactions are studied on their own
NumTxCallers == 1

TxTasks == 1 .. NumTxCallers

\* the contextvars.Context objects callers run in
Ctxs == {"ctx_a", "ctx_b"}

\* the DatabaseConnectionSettings instances, named by their DSN
Insts == {"dsn_primary", "dsn_replica"}

\* largest number of rows handed to a decoder
MaxRows == 2

\* how the caller's block inside a transaction ends: normally, by raising, by cancellation
Excs == {"none", "Error", "CancelledError"}

\* the isolation_level argument of sqlalchemy_transaction
IsoLevels == {"None", "SERIALIZABLE"}

VARIABLES
    max_size,           \* LRUCache.max_size
    cache,              \* LRUCache._cache: sequence of [k, v], least recently used first
    lru_ret,            \* the last LRUCache call: its name, arguments, result and exception
    touched,            \* history: the key a get or put last made most recently used, and
                        \* the number of puts of new keys that followed with nothing between
    loop_of,            \* per Context object: the event loop it belongs to, named by the
                        \* Context of the loop's first task; MainThread for the Context of
                        \* the main thread outside any loop; "none" before the context exists
    engine_ctx,         \* _async_engine_ctx: per context, the cached engine or None
    sessionmaker_ctx,   \* _async_sessionmaker_ctx: per context, the cached sessionmaker or None
    private_engine,     \* self._sqlalchemy_async_engine of each settings instance
    engines,            \* the AsyncEngine objects built so far, listed by the context that
                        \* built them: <<c, n>> refers to the n-th engine built in context c
    sessionmakers,      \* the async_sessionmaker objects built so far, listed the same way
    task,               \* each caller: position in the code, arguments, locals, result
    records,            \* the rows handed to the decoders: each row its values by column
    decoded,            \* the last decoder call: its name, argument, result and exception
    kwargs,             \* the keyword arguments AgtypeRecord is constructed with
    agrecord            \* the last AgtypeRecord construction: the record or the exception

lru_vars == <<max_size, cache, lru_ret, touched>>
conn_vars == <<loop_of, engine_ctx, sessionmaker_ctx, private_engine, engines, sessionmakers,
               task>>
db_vars == <<records, decoded, kwargs, agrecord>>
vars == <<max_size, cache, lru_ret, touched, loop_of, engine_ctx, sessionmaker_ctx, private_engine,
          engines, sessionmakers, task, records, decoded, kwargs, agrecord>>

(***************************************************************************)
(* LRUCache                                                                *)
(***************************************************************************)
RECURSIVE IndexOf(_, _, _)
\* position of key k in the OrderedDict s at or after i, 0 when absent
IndexOf(s, k, i) ==
    IF i > Len(s) THEN 0
    ELSE IF s[i].k = k THEN i
    ELSE IndexOf(s, k, i + 1)

\* `key in self._cache`
Contains(s, k) == IndexOf(s, k, 1) # 0

\* `self._cache[key]`
Lookup(s, k) == s[IndexOf(s, k, 1)].v

\* `del self._cache[key]`
DeleteMutant(s, k) == s
Delete(s, k) ==
    LET i == IndexOf(s, k, 1)
    IN  SubSeq(s, 1, i - 1) \o SubSeq(s, i + 1, Len(s))

\* `self._cache.move_to_end(key)`
MoveToEndMutant(s, k) == s
MoveToEnd(s, k) == Append(Delete(s, k), [k |-> k, v |-> Lookup(s, k)])

\* `self._cache[key] = value` for a key that is not in the dict
Insert(s, k, v) == Append(s, [k |-> k, v |-> v])

\* the keys of the OrderedDict
KeySet(s) == {s[i].k : i \in 1 .. Len(s)}

\* the caller's filter callables: each is a predicate over the (key, value) tuple
Filters ==
    {[kind |-> "key_le", arg |-> n] : n \in 0 .. (MaxCap + 1)}
        \cup {[kind |-> "val_eq", arg |-> v] : v \in Vals}

\* `filter((key, value))`
ApplyFilter(f, k, v) ==
    IF f.kind = "key_le" THEN k <= f.arg ELSE v = f.arg

RECURSIVE RemoveMatching(_, _)
\* deleting every key of keys_to_remove keeps the other items in their order
RemoveMatchingMutant(s, f) == <<>>
RemoveMatching(s, f) ==
    IF s = <<>> THEN <<>>
    ELSE IF ApplyFilter(f, Head(s).k, Head(s).v)
         THEN RemoveMatching(Tail(s), f)
         ELSE <<Head(s)>> \o RemoveMatching(Tail(s), f)

\* the full-cache test of put: `len(self._cache) >= self.max_size`
PutAtCapacityMutant(s, cap) == Len(s) > cap
PutAtCapacity(s, cap) == Len(s) >= cap

\* `self._cache.popitem(last=False)` raises KeyError on an empty dict
PopitemRaises(s) == s = <<>>

\* the record of a call: what was called, with what, what came back; evicted is the key a
\* put evicted, or the number of entries a clear removed
Ret(op, k, v, f, raised, value, evicted) ==
    [op |-> op, key |-> k, val |-> v, filter |-> f, raised |-> raised, value |-> value,
     evicted |-> evicted]

NoFilter == [kind |-> "none", arg |-> 0]

\* no key is being followed
NoTouch == [k |-> None, by |-> "none", n |-> 0]

\* key k was just made the most recently used one: by "get" (move_to_end), by "put" of a
\* new key or by "replace", the put of a present key (both insert at the end of the
\* OrderedDict)
Touch(k, by) == [k |-> k, by |-> by, n |-> 0]

\* a put of a new key follows: one more for the key being followed while it is counted as
\* present, else the new key is the one followed from now on
Followed(t, cap, k) ==
    IF t.k # None /\ t.n < cap THEN [t EXCEPT !.n = t.n + 1] ELSE Touch(k, "put")

\* LRUCache.get
Get(k) ==
    /\ IF ~Contains(cache, k)
       THEN /\ cache' = cache
            /\ lru_ret' = Ret("get", k, None, NoFilter, "none", None, None)
            /\ touched' = NoTouch
       ELSE /\ cache' = MoveToEnd(cache, k)
            /\ lru_ret' = Ret("get", k, None, NoFilter, "none", Lookup(cache, k), None)
            /\ touched' = Touch(k, "get")
    /\ UNCHANGED <<max_size, conn_vars, db_vars>>

\* LRUCache.put
Put(k, v) ==
    /\ IF Contains(cache, k)
       THEN /\ cache' = Insert(Delete(cache, k), k, v)
            /\ lru_ret' = Ret("put", k, v, NoFilter, "none", None, None)
            /\ touched' = Touch(k, "replace")
       ELSE IF PutAtCapacity(cache, max_size)
       THEN IF PopitemRaises(cache)
            THEN /\ cache' = cache
                 /\ lru_ret' = Ret("put", k, v, NoFilter, "KeyError", None, None)
                 /\ touched' = NoTouch
            ELSE /\ cache' = Insert(Tail(cache), k, v)
                 /\ lru_ret' = Ret("put", k, v, NoFilter, "none", None, Head(cache).k)
                 /\ touched' = Followed(touched, max_size, k)
       ELSE /\ cache' = Insert(cache, k, v)
            /\ lru_ret' = Ret("put", k, v, NoFilter, "none", None, None)
            /\ touched' = Followed(touched, max_size, k)
    /\ UNCHANGED <<max_size, conn_vars, db_vars>>

\* LRUCache.clear(None)
Clear ==
    /\ cache' = <<>>
    /\ lru_ret' = Ret("clear", None, None, NoFilter, "none", None, Len(cache))
    /\ touched' = NoTouch
    /\ UNCHANGED <<max_size, conn_vars, db_vars>>

\* LRUCache.clear(filter)
ClearFilter(f) ==
    /\ cache' = RemoveMatching(cache, f)
    /\ lru_ret' = Ret("clear", None, None, f, "none", None, Len(cache) - Len(RemoveMatching(cache, f)))
    /\ touched' = NoTouch
    /\ UNCHANGED <<max_size, conn_vars, db_vars>>

(***************************************************************************)
(* DatabaseConnectionSettings: engine, sessionmaker, dispose, transaction  *)
(*                                                                         *)
(* A caller is a coroutine running in one contextvars.Context on behalf of *)
(* one settings instance.  The two caches are ContextVars: a value set in  *)
(* one Context object is seen in that object only.  asyncio runs every     *)
(* task in a Context of its own: the first task of an event loop           *)
(* (asyncio.run) gets a Context in which the caches are unset, a task      *)
(* created by running code (create_task, gather, TaskGroup) gets a copy of *)
(* its creator's Context, and coroutines awaited directly share the        *)
(* Context of the awaiting task.                                           *)
(*                                                                         *)
(* A task is suspended only where an                                       *)
(* await reaches the event loop: sqlalchemy_async_engine contains no       *)
(* await, so awaiting it (line 179), and awaiting sqlalchemy_sessionmaker  *)
(* (line 186), runs the callee to completion without a task switch; a call *)
(* of sqlalchemy_async_engine, sqlalchemy_sessionmaker or                  *)
(* sqlalchemy_dispose_async_engine (whose only await is in the branch that *)
(* finds an engine) is one step.  The awaits on the session (connection,   *)
(* begin, commit/rollback, close) and the caller's block are the           *)
(* suspension points of sqlalchemy_transaction.                            *)
(***************************************************************************)

\* a session that has not been opened
NoSession == [state |-> "none", tx |-> "none", iso |-> "None"]

\* a caller that is not inside any call
IdleTask ==
    [pc |-> "idle", op |-> "none", ctx |-> "none", inst |-> "none", iso |-> "None",
     session |-> NoSession, block |-> "none", exc |-> "none", ret |-> Nil]

\* ContextVar.get() in context c
CtxGet(var, c) == var[c]

\* ContextVar.set(value) in context c: only that context sees the value
CtxSet(var, c, value) == [var EXCEPT ![c] = value]

\* create_async_engine(str(self.dsn), **engine_kwargs) called by instance i in context c
NewEngine(i, c) == [dsn |-> i, ctx |-> c, disposed |-> FALSE]

\* async_sessionmaker(engine, class_=AsyncSession, expire_on_commit=False) built in context c
NewSessionmaker(e, c) == [engine |-> e, ctx |-> c]

\* the cache test of sqlalchemy_async_engine: `engine is None`
EngineMissing(e) == e = Nil

\* the object a reference points to
Deref(heap, ref) == heap[ref[1]][ref[2]]

\* the references to all objects built so far
Refs(heap) == UNION {{<<c, n>> : n \in 1 .. Len(heap[c])} : c \in DOMAIN heap}

\* a new object built in context c: its reference and the heap holding it
Alloc(heap, c, obj) ==
    [ref |-> <<c, Len(heap[c]) + 1>>, heap |-> [heap EXCEPT ![c] = Append(@, obj)]]

\* sqlalchemy_async_engine, lines 158-174, run by instance i in context c on the caches
\* ec (engines by context) and es (engines built): the engine returned and the new caches
AcquireEngineMutant(ec, es, c, i) ==
    LET cached == CtxGet(ec, c)
        new == Alloc(es, c, NewEngine(i, c))
    IN  IF EngineMissing(cached)
        THEN [e |-> new.ref, engines |-> new.heap, engine_ctx |-> ec]
        ELSE [e |-> cached, engines |-> es, engine_ctx |-> ec]
AcquireEngine(ec, es, c, i) ==
    LET cached == CtxGet(ec, c)
        new == Alloc(es, c, NewEngine(i, c))
    IN  IF EngineMissing(cached)
        THEN [e |-> new.ref, engines |-> new.heap, engine_ctx |-> CtxSet(ec, c, new.ref)]
        ELSE [e |-> cached, engines |-> es, engine_ctx |-> ec]

\* sqlalchemy_sessionmaker, lines 177-182, run by instance i in context c: the sessionmaker
\* returned and the new caches
AcquireSessionmaker(c, i) ==
    LET cached == CtxGet(sessionmaker_ctx, c)
        eng == AcquireEngine(engine_ctx, engines, c, i)
        new == Alloc(sessionmakers, c, NewSessionmaker(eng.e, c))
    IN  IF cached = Nil
        THEN [sm |-> new.ref,
              engines |-> eng.engines,
              engine_ctx |-> eng.engine_ctx,
              sessionmakers |-> new.heap,
              sessionmaker_ctx |-> CtxSet(sessionmaker_ctx, c, new.ref)]
        ELSE [sm |-> cached,
              engines |-> engines,
              engine_ctx |-> engine_ctx,
              sessionmakers |-> sessionmakers,
              sessionmaker_ctx |-> sessionmaker_ctx]

\* the guard of sqlalchemy_dispose_async_engine:
\* `self._sqlalchemy_async_engine and isinstance(self._sqlalchemy_async_engine, AsyncEngine)`
DisposeGuard(pe) == pe # Nil

\* what sqlalchemy_dispose_async_engine raises when it finds no engine: nothing
DisposeSkipRaisesMutant(pe) == "AttributeError"
DisposeSkipRaises(pe) == "none"

\* the test of sqlalchemy_transaction: `isolation_level is not None`
IsoGiven(iso) == iso # "None"

(***************************************************************************)
(* The session, its transaction and its connection are SQLAlchemy objects  *)
(* (AsyncSession of sqlalchemy.ext.asyncio, imported at line 8, of the     *)
(* 2.x series, the one that has async_sessionmaker).  The library is not   *)
(* part of the repository; what its calls do is stated here after its      *)
(* documented behaviour and section 4.6 of the specification, one operator *)
(* per call, and the steps of sqlalchemy_transaction below apply them in   *)
(* the order of the source.                                                *)
(***************************************************************************)

\* AsyncSession.connection(): the connection of the session's transaction, which the
\* call begins when the session has none
session_connection(session) == [session EXCEPT !.tx = "active"]

\* AsyncConnection.execution_options(isolation_level=...) raises InvalidRequestError on a
\* connection that has begun a transaction
execution_options_raises(session) == session.tx = "active"

\* AsyncConnection.execution_options(isolation_level=...) on a connection that has begun
\* no transaction: the level of the connection
IsoApplied(iso) == iso

\* AsyncSession.begin() raises InvalidRequestError on a session whose transaction is begun
session_begin_raises(session) == session.tx # "none"

\* exit of `async with session.begin()`: the commit, when the block raised nothing (exc),
\* or else the rollback, is awaited; a commit that raises or is interrupted (how) is
\* rolled back
TxOutcome(exc, how) ==
    IF exc = "none" /\ how = "none" THEN "committed" ELSE "rolledback"

\* AsyncSession.close(): the session is closed and a transaction it still has is rolled back
SessionClosed(session) ==
    [session EXCEPT !.state = "closed",
                    !.tx = IF @ = "active" THEN "rolledback" ELSE @]

\* exit of `async with sessionmaker()` when the caller is cancelled in it: the close runs
\* shielded in a task of the loop, which goes on after the caller got its CancelledError
SessionClosing(session) == [session EXCEPT !.state = "closing"]

\* how the caller's block ended, as the frame records it
BlockEnd(exc) == IF exc = "none" THEN "returned" ELSE exc

\* how the await of the commit or rollback of line 208 ends: the SQLAlchemy call returns,
\* it raises, or the caller is cancelled while suspended in it
CleanupEnds == {"none", "SQLAlchemyError", "CancelledError"}

\* the execution unit of the Context of the main thread while it runs no event loop
MainThread == "main_thread"

\* Context c runs in an event loop
InLoop(c) == loop_of[c] \notin {"none", MainThread}

\* the main thread starts: its Context c is new and holds no value for either ContextVar
\* (their default, None); code can call into the module from it before any loop runs
main_thread(c) ==
    /\ loop_of[c] = "none"
    /\ \A x \in Ctxs : loop_of[x] # MainThread
    /\ loop_of' = [loop_of EXCEPT ![c] = MainThread]
    /\ engine_ctx' = [engine_ctx EXCEPT ![c] = Nil]
    /\ sessionmaker_ctx' = [sessionmaker_ctx EXCEPT ![c] = Nil]
    /\ UNCHANGED <<lru_vars, db_vars, private_engine, engines, sessionmakers, task>>

\* asyncio.run starts an event loop: the Context c of its first task is a copy of the
\* Context of the thread that calls asyncio.run.  That is a Context that holds no value
\* (src "none": a thread that has made no call), the Context of the main thread, or, for
\* asyncio.to_thread(asyncio.run, ...), a copy of the Context src of the task that calls
\* to_thread
asyncio_run(src, c) ==
    /\ loop_of[c] = "none"
    /\ src # "none" => loop_of[src] # "none"
    /\ loop_of' = [loop_of EXCEPT ![c] = c]
    /\ engine_ctx' = [engine_ctx EXCEPT ![c] = IF src = "none" THEN Nil ELSE engine_ctx[src]]
    /\ sessionmaker_ctx' =
            [sessionmaker_ctx EXCEPT ![c] = IF src = "none" THEN Nil ELSE sessionmaker_ctx[src]]
    /\ UNCHANGED <<lru_vars, db_vars, private_engine, engines, sessionmakers, task>>

\* a task is created by code running in Context src of an event loop: its Context c is a
\* copy of src, in the same event loop
create_task(src, c) ==
    /\ InLoop(src)
    /\ loop_of[c] = "none"
    /\ loop_of' = [loop_of EXCEPT ![c] = loop_of[src]]
    /\ engine_ctx' = [engine_ctx EXCEPT ![c] = engine_ctx[src]]
    /\ sessionmaker_ctx' = [sessionmaker_ctx EXCEPT ![c] = sessionmaker_ctx[src]]
    /\ UNCHANGED <<lru_vars, db_vars, private_engine, engines, sessionmakers, task>>

\* caller t, free for a call, enters `op` in context c on instance i
Frame(op, c, i, iso) ==
    [IdleTask EXCEPT !.op = op, !.ctx = c, !.inst = i, !.iso = iso]

\* sqlalchemy_async_engine, lines 156-174, called by t in context c on instance i
sqlalchemy_async_engine(t, c, i) ==
    LET r == AcquireEngine(engine_ctx, engines, c, i)
    IN  /\ task[t].pc = "idle"
        /\ loop_of[c] # "none"
        /\ engines' = r.engines
        /\ engine_ctx' = r.engine_ctx
        /\ task' = [task EXCEPT ![t] =
                        [Frame("engine", c, i, "None") EXCEPT !.pc = "done", !.ret = r.e]]
        /\ UNCHANGED <<lru_vars, db_vars, loop_of, sessionmaker_ctx, private_engine, sessionmakers>>

\* sqlalchemy_sessionmaker, lines 176-182, called by t in context c on instance i
sqlalchemy_sessionmaker(t, c, i) ==
    LET r == AcquireSessionmaker(c, i)
    IN  /\ task[t].pc = "idle"
        /\ loop_of[c] # "none"
        /\ engines' = r.engines
        /\ engine_ctx' = r.engine_ctx
        /\ sessionmakers' = r.sessionmakers
        /\ sessionmaker_ctx' = r.sessionmaker_ctx
        /\ task' = [task EXCEPT ![t] =
                        [Frame("sessionmaker", c, i, "None") EXCEPT !.pc = "done", !.ret = r.sm]]
        /\ UNCHANGED <<lru_vars, db_vars, loop_of, private_engine>>

\* how a suspended `await` ends: it returns, or CancelledError is thrown in at it
AwaitEnds == {"none", "CancelledError"}

\* sqlalchemy_dispose_async_engine, lines 150-154, of caller t in context c on instance i:
\* it looks at the instance's private attribute _sqlalchemy_async_engine, not at the
\* ContextVar caches.  The call (caller idle, `how` "none") tests the guard of line 152:
\* without an engine on the instance it returns; with one it calls dispose() on it and is
\* suspended at the await of line 153, holding that engine.  The await of line 153 then
\* ends as `how` says: it returns, the pool is closed and line 154 clears the attribute;
\* or the caller is cancelled there, and line 154 is not reached.
sqlalchemy_dispose_async_engine(t, c, i, how) ==
    LET pe == private_engine[i]
        held == task[t].ret
    IN  /\ loop_of[c] # "none"
        /\ IF task[t].pc = "idle"
           THEN /\ how = "none"
                /\ task' = [task EXCEPT ![t] =
                        IF DisposeGuard(pe)
                        THEN [Frame("dispose", c, i, "None") EXCEPT !.pc = "disp_153", !.ret = pe]
                        ELSE [Frame("dispose", c, i, "None") EXCEPT
                                    !.pc = "done", !.exc = DisposeSkipRaises(pe)]]
                /\ UNCHANGED <<engines, private_engine>>
           ELSE /\ task[t].pc = "disp_153"
                /\ task[t].ctx = c
                /\ task[t].inst = i
                /\ task' = [task EXCEPT ![t].pc = "done", ![t].exc = how, ![t].ret = Nil]
                /\ IF how = "none"
                   THEN /\ engines' = [engines EXCEPT ![held[1]][held[2]].disposed = TRUE]
                        /\ private_engine' = [private_engine EXCEPT ![i] = Nil]
                   ELSE UNCHANGED <<engines, private_engine>>
        /\ UNCHANGED <<lru_vars, db_vars, loop_of, engine_ctx, sessionmaker_ctx, sessionmakers>>

\* sqlalchemy_transaction entered by t in context c on instance i, lines 204-205 with
\* sqlalchemy_session lines 186-187: the sessionmaker is acquired, a session opened on it,
\* and isolation_level tested.  From here on the coroutine uses only its session and
\* isolation_level, which is all the caller's frame keeps; of the session, the frame
\* keeps whether it is open, the state of its transaction and its isolation level.
sqlalchemy_session(t, c, i, iso) ==
    LET r == AcquireSessionmaker(c, i)
    IN  /\ task[t].pc = "idle"
        /\ InLoop(c)
        /\ engines' = r.engines
        /\ engine_ctx' = r.engine_ctx
        /\ sessionmakers' = r.sessionmakers
        /\ sessionmaker_ctx' = r.sessionmaker_ctx
        /\ task' = [task EXCEPT ![t] =
                [Frame("transaction", "none", "none", iso) EXCEPT
                    !.pc = IF IsoGiven(iso) THEN "tx_206" ELSE "tx_208",
                    !.session = [NoSession EXCEPT !.state = "open"]]]
        /\ UNCHANGED <<lru_vars, db_vars, loop_of, private_engine>>

\* what an await of the setup of a transaction can raise besides the library's rejections:
\* the SQLAlchemy call fails (no connection to be had), or the caller is cancelled there
SetupExcs == {"SQLAlchemyError", "CancelledError"}

\* sqlalchemy_transaction, line 206: `await session.connection()` returns the connection
sqlalchemy_transaction_connection(t) ==
    /\ task[t].pc = "tx_206"
    /\ task' = [task EXCEPT ![t].pc = "tx_207",
                            ![t].session = session_connection(@)]
    /\ UNCHANGED <<lru_vars, db_vars, loop_of, engine_ctx, sessionmaker_ctx, private_engine, engines, sessionmakers>>

\* sqlalchemy_transaction, line 207: `await conn.execution_options(isolation_level=...)`
\* raises, and the exception leaves through the `async with` of sqlalchemy_session, or it
\* returns with the isolation level on the session's connection
sqlalchemy_transaction_isolation(t) ==
    /\ task[t].pc = "tx_207"
    /\ task' = IF execution_options_raises(task[t].session)
               THEN [task EXCEPT ![t].pc = "sess_exit", ![t].exc = "InvalidRequestError"]
               ELSE [task EXCEPT ![t].pc = "tx_208",
                                 ![t].session.iso = IsoApplied(task[t].iso)]
    /\ UNCHANGED <<lru_vars, db_vars, loop_of, engine_ctx, sessionmaker_ctx, private_engine, engines, sessionmakers>>

\* sqlalchemy_transaction, lines 208-209: `async with session.begin()` raises, and the
\* exception leaves through the `async with` of sqlalchemy_session, or it is entered, then
\* the yield: the caller's block starts to run
sqlalchemy_transaction_begin(t) ==
    /\ task[t].pc = "tx_208"
    /\ task' = IF session_begin_raises(task[t].session)
               THEN [task EXCEPT ![t].pc = "sess_exit", ![t].exc = "InvalidRequestError"]
               ELSE [task EXCEPT ![t].pc = "body", ![t].session.tx = "active"]
    /\ UNCHANGED <<lru_vars, db_vars, loop_of, engine_ctx, sessionmaker_ctx, private_engine, engines, sessionmakers>>

\* sqlalchemy_transaction, line 206, 207 or 208: the await the caller is at raises exc;
\* the block never runs and the exception leaves through the `async with` of
\* sqlalchemy_session
sqlalchemy_transaction_setup_fails(t, exc) ==
    /\ task[t].pc \in {"tx_206", "tx_207", "tx_208"}
    /\ task' = [task EXCEPT ![t].pc = "sess_exit", ![t].exc = exc]
    /\ UNCHANGED <<lru_vars, db_vars, loop_of, engine_ctx, sessionmaker_ctx, private_engine, engines, sessionmakers>>

\* sqlalchemy_transaction, line 209 back to line 208: the caller's block ends normally, by
\* raising or by being cancelled at a suspension point (exc), and the exit of
\* `async with session.begin()` is entered with it: the caller is suspended in the commit
\* or the rollback, the transaction still active
sqlalchemy_transaction_exitMutant(t, exc) ==
    /\ task[t].pc = "body"
    /\ task' = [task EXCEPT ![t].pc = "sess_exit",
                            ![t].block = BlockEnd(exc),
                            ![t].exc = exc]
    /\ UNCHANGED <<lru_vars, db_vars, loop_of, engine_ctx, sessionmaker_ctx, private_engine, engines, sessionmakers>>

sqlalchemy_transaction_exit(t, exc) ==
    /\ task[t].pc = "body"
    /\ task' = [task EXCEPT ![t].pc = "tx_exit",
                            ![t].block = BlockEnd(exc),
                            ![t].exc = exc]
    /\ UNCHANGED <<lru_vars, db_vars, loop_of, engine_ctx, sessionmaker_ctx, private_engine, engines, sessionmakers>>

\* sqlalchemy_transaction, line 208 on exit: the await of the commit or rollback ends
\* (how).  When it returns, the exception of the block, if any, goes on; when it raises or
\* the caller is cancelled in it, that exception goes on instead
sqlalchemy_transaction_end(t, how) ==
    /\ task[t].pc = "tx_exit"
    /\ task' = [task EXCEPT ![t].pc = "sess_exit",
                            ![t].exc = IF how = "none" THEN @ ELSE how,
                            ![t].session.tx = TxOutcome(task[t].exc, how)]
    /\ UNCHANGED <<lru_vars, db_vars, loop_of, engine_ctx, sessionmaker_ctx, private_engine, engines, sessionmakers>>

\* sqlalchemy_session, line 187 on exit: the exit of `async with sessionmaker()` awaits the
\* close of the session, then control returns with the exception that came in, if any.
\* When the caller is cancelled in that await (how), control returns with CancelledError
\* and the close is still running
sqlalchemy_session_exitMutant(t, how) ==
    /\ task[t].pc = "sess_exit"
    /\ task' = [task EXCEPT ![t].pc = "done",
                            ![t].exc = IF how = "none" THEN @ ELSE how,
                            ![t].session = IF task[t].exc = "CancelledError"
                                           THEN @
                                           ELSE SessionClosed(@)]
    /\ UNCHANGED <<lru_vars, db_vars, loop_of, engine_ctx, sessionmaker_ctx, private_engine, engines, sessionmakers>>

sqlalchemy_session_exit(t, how) ==
    /\ task[t].pc = "sess_exit"
    /\ task' = [task EXCEPT ![t].pc = "done",
                            ![t].exc = IF how = "none" THEN @ ELSE how,
                            ![t].session = IF how = "none"
                                           THEN SessionClosed(@)
                                           ELSE SessionClosing(@)]
    /\ UNCHANGED <<lru_vars, db_vars, loop_of, engine_ctx, sessionmaker_ctx, private_engine, engines, sessionmakers>>

\* the close that a cancelled exit of line 187 left running completes
sqlalchemy_session_close(t) ==
    /\ task[t].session.state = "closing"
    /\ task' = [task EXCEPT ![t].session = SessionClosed(@)]
    /\ UNCHANGED <<lru_vars, db_vars, loop_of, engine_ctx, sessionmaker_ctx, private_engine, engines, sessionmakers>>

\* the caller takes the result and is free for the next call
Return(t) ==
    /\ task[t].pc = "done"
    /\ task' = [task EXCEPT ![t] = IdleTask]
    /\ UNCHANGED <<lru_vars, db_vars, loop_of, engine_ctx, sessionmaker_ctx, private_engine, engines, sessionmakers>>

(***************************************************************************)
(* db.py: Python values and texts                                          *)
(*                                                                         *)
(* A text is a sequence of symbols; a symbol is a character or a word that *)
(* the code never looks into ("vertex", "edge", "numeric", and "s", a      *)
(* whole string literal with its quotes, whose content is the word "w";    *)
(* "q" is a double quote that opens or closes a literal spelled out symbol *)
(* by symbol).                                                             *)
(* A Python value is a str, given by its text, or any other value, given   *)
(* by its JSON text: 1, None (null), a dict, a list.                       *)
(***************************************************************************)
PyStr(t) == [kind |-> "str", text |-> t]
PyJson(t) == [kind |-> "json", text |-> t]

\* `isinstance(value, str)`
IsStr(v) == v.kind = "str"

\* `sub in text`
HasSub(t, sub) ==
    \E i \in 1 .. (Len(t) - Len(sub) + 1) : SubSeq(t, i, i + Len(sub) - 1) = sub

\* `text.startswith(c)` and `text.endswith(c)` for a one-character c
StartsWith(t, c) == Len(t) > 0 /\ t[1] = c
EndsWith(t, c) == Len(t) > 0 /\ t[Len(t)] = c

RECURSIVE Replace(_, _)
\* `text.replace(sub, '')`: every occurrence of sub, found from the left, is removed
Replace(t, sub) ==
    IF Len(t) < Len(sub) THEN t
    ELSE IF SubSeq(t, 1, Len(sub)) = sub
         THEN Replace(SubSeq(t, Len(sub) + 1, Len(t)), sub)
         ELSE <<Head(t)>> \o Replace(Tail(t), sub)

RECURSIVE Join(_, _)
\* `sep.join(texts)`
Join(texts, sep) ==
    IF texts = <<>> THEN <<>>
    ELSE IF Len(texts) = 1 THEN Head(texts)
    ELSE Head(texts) \o sep \o Join(Tail(texts), sep)

\* the symbol of text t at position i, "" past the end
At(t, i) == IF i >= 1 /\ i <= Len(t) THEN t[i] ELSE ""

RECURSIVE CloseQuote(_, _)
\* the position of the first double quote of t at or after i, 0 when there is none
CloseQuote(t, i) ==
    IF i > Len(t) THEN 0
    ELSE IF t[i] = "q" THEN i
    ELSE CloseQuote(t, i + 1)

\* json: a string literal starting at i; the position after it, 0 when there is none
ParseString(t, i) ==
    IF At(t, i) = "s" THEN i + 1
    ELSE IF At(t, i) = "q"
         THEN (IF CloseQuote(t, i + 1) = 0 THEN 0 ELSE CloseQuote(t, i + 1) + 1)
         ELSE 0

RECURSIVE ParseValue(_, _), ParseMembers(_, _), ParseElements(_, _)
\* json: a value starting at i; the position after it, 0 when there is none
ParseValue(t, i) ==
    IF At(t, i) \in {"1", "null"} THEN i + 1
    ELSE IF At(t, i) \in {"s", "q"} THEN ParseString(t, i)
    ELSE IF At(t, i) = "{"
         THEN (IF At(t, i + 1) = "}" THEN i + 2 ELSE ParseMembers(t, i + 1))
    ELSE IF At(t, i) = "["
         THEN (IF At(t, i + 1) = "]" THEN i + 2 ELSE ParseElements(t, i + 1))
    ELSE 0

\* json: the members of an object from i up to its closing brace
ParseMembers(t, i) ==
    LET k == ParseString(t, i)
        v == IF k # 0 /\ At(t, k) = ":" THEN ParseValue(t, k + 1) ELSE 0
    IN  IF v = 0 THEN 0
        ELSE IF At(t, v) = "," THEN ParseMembers(t, v + 1)
        ELSE IF At(t, v) = "}" THEN v + 1
        ELSE 0

\* json: the elements of an array from i up to its closing bracket
ParseElements(t, i) ==
    LET v == ParseValue(t, i)
    IN  IF v = 0 THEN 0
        ELSE IF At(t, v) = "," THEN ParseElements(t, v + 1)
        ELSE IF At(t, v) = "]" THEN v + 1
        ELSE 0

\* json.loads accepts t: one value and nothing after it
JsonValid(t) == ParseValue(t, 1) = Len(t) + 1

\* the outcome of a call: the exception raised, or the value returned
Raised(exc) == [raised |-> exc, value |-> PyJson(<<"null">>)]
Returned(v) == [raised |-> "none", value |-> v]

\* json.loads(t): a str for a string literal, else the value the text denotes
json_loads(t) ==
    IF ~JsonValid(t) THEN Raised("JSONDecodeError")
    ELSE IF t = <<"s">> THEN Returned(PyStr(<<"w">>))
    ELSE IF At(t, 1) = "q" THEN Returned(PyStr(SubSeq(t, 2, Len(t) - 1)))
    ELSE Returned(PyJson(t))

(***************************************************************************)
(* db.py: the agtype decoders                                              *)
(***************************************************************************)
\* Python's None as a value
PyNone == PyJson(<<"null">>)

\* the text '::'
DoubleColon == <<":", ":">>

\* the text of an agtype type tag, such as '::vertex'
Tag(name) == DoubleColon \o <<name>>

\* the JSON object text '{"label":"Person"}'
ObjText == <<"{", "s", ":", "s", "}">>

\* the values a row holds: an int, a str holding JSON without a tag, tagged vertex and
\* edge payloads, a tagged payload with '::vertex' inside a string literal, an untagged
\* JSON array with '::' inside a string literal, a malformed payload, a tagged number
RowValues ==
    { PyJson(<<"1">>),
      PyStr(ObjText),
      PyStr(ObjText \o Tag("vertex")),
      PyStr(ObjText \o Tag("edge")),
      PyStr(<<"{", "s", ":", "q", "a">> \o Tag("vertex") \o <<"q", "}">> \o Tag("vertex")),
      PyStr(<<"[", "q", "a">> \o DoubleColon \o <<"a", "q", "]">>),
      PyStr(<<"{">> \o DoubleColon \o <<"}">>),
      PyStr(<<"1">> \o Tag("numeric")) }

\* the columns of a row, in iteration order
ColNames == <<"id", "v">>

\* the values of the "id" column: an integer or a tagged vertex
IdValues == {PyJson(<<"1">>), PyStr(ObjText \o Tag("vertex"))}

\* the rows: one value per column
Rows == {r \in [1 .. Len(ColNames) -> RowValues] : r[1] \in IdValues}

\* the test both decoders apply to a value: `isinstance(value, str) and '::' in value`
IsAgtypeMutant(v) == IsStr(v)
IsAgtype(v) == IsStr(v) /\ HasSub(v.text, DoubleColon)

\* decode_agtype_string, lines 55-63
decode_agtype_string(t) ==
    IF StartsWith(t, "{") /\ EndsWith(t, "}") THEN json_loads(t)
    ELSE IF StartsWith(t, "[") /\ EndsWith(t, "]") THEN json_loads(t)
    ELSE Returned(PyStr(t))

\* decode_record, lines 36-39: what becomes of one value of the row
DecodeValue(v) == IF IsAgtype(v) THEN decode_agtype_string(v.text) ELSE Returned(v)

\* the record of a decoder call: its name, the row it was given (0 for the whole list),
\* the exception raised, the row returned by decode_record, the list returned by
\* decode_asyncio_agtype_recordset
DecRet(op, arg, raised, row, value) ==
    [op |-> op, arg |-> arg, raised |-> raised, row |-> row, value |-> value]

NotDecoded == DecRet("none", 0, "none", <<>>, PyNone)

\* decode_record, lines 34-40, on one row
decode_record(row) ==
    LET outs == [c \in 1 .. Len(row) |-> DecodeValue(row[c])]
    IN  IF \E c \in 1 .. Len(row) : outs[c].raised # "none"
        THEN [raised |-> "JSONDecodeError", row |-> <<>>]
        ELSE [raised |-> "none", row |-> [c \in 1 .. Len(row) |-> outs[c].value]]

RECURSIVE AgtypeStringsOfRow(_)
\* lines 79-83 for one row: the texts of its agtype values, in column order
AgtypeStringsOfRow(row) ==
    IF row = <<>> THEN <<>>
    ELSE (IF IsAgtype(Head(row)) THEN <<Head(row).text>> ELSE <<>>)
            \o AgtypeStringsOfRow(Tail(row))

RECURSIVE AgtypeStrings(_)
\* lines 79-83: the texts of the agtype values of all rows, in row order then column order
AgtypeStrings(recs) ==
    IF recs = <<>> THEN <<>>
    ELSE AgtypeStringsOfRow(Head(recs)) \o AgtypeStrings(Tail(recs))

\* lines 88-93: the JSON array text built from the collected texts
JsonArray(texts) ==
    <<"[">> \o Replace(Replace(Join(texts, <<",">>), Tag("vertex")), Tag("edge")) \o <<"]">>

\* decode_asyncio_agtype_recordset, lines 79-94
decode_asyncio_agtype_recordset(recs) ==
    IF AgtypeStrings(recs) = <<>>
    THEN Returned(PyJson(<<"[", "]">>))
    ELSE json_loads(JsonArray(AgtypeStrings(recs)))

\* decode_record is called on row i of the rows
CallDecodeRecord(i) ==
    /\ i <= Len(records)
    /\ decoded' = DecRet("decode_record", i, decode_record(records[i]).raised,
                         decode_record(records[i]).row, PyNone)
    /\ UNCHANGED <<lru_vars, conn_vars, records, kwargs, agrecord>>

\* decode_asyncio_agtype_recordset is called on the rows
CallDecodeRecordset ==
    /\ decoded' = DecRet("decode_asyncio_agtype_recordset", 0,
                         decode_asyncio_agtype_recordset(records).raised, <<>>,
                         decode_asyncio_agtype_recordset(records).value)
    /\ UNCHANGED <<lru_vars, conn_vars, records, kwargs, agrecord>>

(***************************************************************************)
(* db.py: AgtypeRecord                                                     *)
(***************************************************************************)
\* a keyword argument that is not passed
Absent == [kind |-> "absent", text |-> <<>>]

\* the str values 'vertex' and 'edge'
Vertex == PyStr(<<"vertex">>)
Edge == PyStr(<<"edge">>)

\* label: not passed, None, the empty str, a name
Labels == {Absent, PyNone, PyStr(<<>>), PyStr(<<"w">>)}

\* properties: None or a dict
Props == {PyNone, PyJson(<<"{", "}">>)}

\* id, start_id, end_id: None or an int
Ids == {PyNone, PyJson(<<"0">>), PyJson(<<"1">>)}

\* _type: None, 'vertex' or 'edge'
Kinds == {PyNone, Vertex, Edge}

\* the keyword arguments of a construction; from_dict(data) is `cls(**data)`
Kwargs ==
    [label : Labels, properties : Props, id : Ids, start_id : Ids, end_id : Ids,
     _type : Kinds]

\* the keyword arguments before any are chosen
NoKwargs ==
    [label |-> Absent, properties |-> PyNone, id |-> PyNone, start_id |-> PyNone,
     end_id |-> PyNone, _type |-> PyNone]

\* the outcome of a construction: the exception raised, or the fields of the record built
NotBuilt == [raised |-> "none", built |-> FALSE, rec |-> NoKwargs]

\* __post_init__, line 140: `self.label is None`
LabelRejectedMutant(label) == label = PyNone \/ label = PyStr(<<>>)
LabelRejected(label) == label = PyNone

\* AgtypeRecord(**kw): the generated __init__ wants label, then __post_init__, lines 139-143
AgtypeRecord(kw) ==
    IF kw.label = Absent THEN [raised |-> "TypeError", built |-> FALSE, rec |-> NoKwargs]
    ELSE IF LabelRejected(kw.label)
         THEN [raised |-> "TypeError", built |-> FALSE, rec |-> NoKwargs]
    ELSE [raised |-> "none", built |-> TRUE,
          rec |-> [kw EXCEPT !.properties =
                        IF kw.properties = PyNone THEN PyJson(<<"{", "}">>) ELSE @]]

\* AgtypeRecord.type, lines 145-150
typeMutant(r) ==
    IF r.start_id # PyNone /\ r.end_id # PyNone THEN Edge ELSE Vertex
type(r) ==
    IF r._type # PyNone THEN r._type
    ELSE IF r.start_id # PyNone /\ r.end_id # PyNone THEN Edge ELSE Vertex

\* AgtypeRecord.is_vertex and is_edge, lines 152-156
is_vertex(r) == type(r) = Vertex
is_edge(r) == type(r) = Edge

\* what a caller reads from a construction: the exception, or the record with its
\* properties type, is_vertex and is_edge
Observed(r) ==
    [raised |-> r.raised, built |-> r.built, rec |-> r.rec,
     type |-> IF r.built THEN type(r.rec) ELSE PyNone,
     is_vertex |-> r.built /\ is_vertex(r.rec),
     is_edge |-> r.built /\ is_edge(r.rec)]

\* nothing constructed yet
NotConstructed == Observed(NotBuilt)

\* AgtypeRecord is constructed, directly or by from_dict, and its properties are read
Construct ==
    /\ agrecord' = Observed(AgtypeRecord(kwargs))
    /\ UNCHANGED <<lru_vars, conn_vars, records, decoded, kwargs>>

(***************************************************************************)
(* Initial states and next-state relations                                 *)
(***************************************************************************)
\* LRUCache.__init__ with max_size drawn from 0 .. MaxCap; no connection is in use
InitLRU ==
    /\ max_size \in 0 .. MaxCap
    /\ cache = <<>>
    /\ lru_ret = Ret("init", None, None, NoFilter, "none", None, None)
    /\ touched = NoTouch
    /\ loop_of = [c \in Ctxs |-> "none"]
    /\ engine_ctx = [c \in Ctxs |-> Nil]
    /\ sessionmaker_ctx = [c \in Ctxs |-> Nil]
    /\ private_engine = [i \in Insts |-> Nil]
    /\ engines = [c \in Ctxs |-> <<>>]
    /\ sessionmakers = [c \in Ctxs |-> <<>>]
    /\ task = [t \in Tasks |-> IdleTask]
    /\ records = <<>>
    /\ decoded = NotDecoded
    /\ kwargs = NoKwargs
    /\ agrecord = NotConstructed

NextLRU ==
    \/ \E k \in Keys : Get(k)
    \/ \E k \in Keys, v \in Vals : Put(k, v)
    \/ Clear
    \/ \E f \in Filters : ClearFilter(f)

\* module import and construction of the settings instances: no task has been started,
\* nothing is cached; one LRUCache stays as constructed
InitConn ==
    /\ max_size = MaxCap
    /\ cache = <<>>
    /\ lru_ret = Ret("init", None, None, NoFilter, "none", None, None)
    /\ touched = NoTouch
    /\ loop_of = [c \in Ctxs |-> "none"]
    /\ engine_ctx = [c \in Ctxs |-> Nil]
    /\ sessionmaker_ctx = [c \in Ctxs |-> Nil]
    /\ private_engine = [i \in Insts |-> Nil]
    /\ engines = [c \in Ctxs |-> <<>>]
    /\ sessionmakers = [c \in Ctxs |-> <<>>]
    /\ task = [t \in Tasks |-> IdleTask]
    /\ records = <<>>
    /\ decoded = NotDecoded
    /\ kwargs = NoKwargs
    /\ agrecord = NotConstructed

NextConn ==
    \/ \E c \in Ctxs : main_thread(c)
    \/ \E src \in Ctxs \cup {"none"}, c \in Ctxs : asyncio_run(src, c)
    \/ \E src \in Ctxs, c \in Ctxs : create_task(src, c)
    \/ \E t \in Tasks, c \in Ctxs, i \in Insts : sqlalchemy_async_engine(t, c, i)
    \/ \E t \in Tasks, c \in Ctxs, i \in Insts : sqlalchemy_sessionmaker(t, c, i)
    \/ \E t \in Tasks, c \in Ctxs, i \in Insts, how \in AwaitEnds :
            sqlalchemy_dispose_async_engine(t, c, i, how)
    \/ \E t \in Tasks, c \in Ctxs, i \in Insts, iso \in IsoLevels : sqlalchemy_session(t, c, i, iso)
    \/ \E t \in Tasks : sqlalchemy_transaction_connection(t)
    \/ \E t \in Tasks : sqlalchemy_transaction_isolation(t)
    \/ \E t \in Tasks : sqlalchemy_transaction_begin(t)
    \/ \E t \in Tasks, exc \in SetupExcs : sqlalchemy_transaction_setup_fails(t, exc)
    \/ \E t \in Tasks, exc \in Excs : sqlalchemy_transaction_exit(t, exc)
    \/ \E t \in Tasks, how \in CleanupEnds : sqlalchemy_transaction_end(t, how)
    \/ \E t \in Tasks, how \in AwaitEnds : sqlalchemy_session_exit(t, how)
    \/ \E t \in Tasks : sqlalchemy_session_close(t)
    \/ \E t \in Tasks : Return(t)

\* the steps of programs that acquire and dispose engines and sessionmakers and open no
\* transaction
NextCache ==
    \/ \E c \in Ctxs : main_thread(c)
    \/ \E src \in Ctxs \cup {"none"}, c \in Ctxs : asyncio_run(src, c)
    \/ \E src \in Ctxs, c \in Ctxs : create_task(src, c)
    \/ \E t \in Tasks, c \in Ctxs, i \in Insts : sqlalchemy_async_engine(t, c, i)
    \/ \E t \in Tasks, c \in Ctxs, i \in Insts : sqlalchemy_sessionmaker(t, c, i)
    \/ \E t \in Tasks, c \in Ctxs, i \in Insts, how \in AwaitEnds :
            sqlalchemy_dispose_async_engine(t, c, i, how)
    \/ \E t \in Tasks : Return(t)

\* the steps of programs whose only calls are transactions, in event loops started from
\* threads that made no call: a transaction touches the caches when it acquires the
\* sessionmaker and from then on only its own session
NextTx ==
    \/ \E c \in Ctxs : asyncio_run("none", c)
    \/ \E t \in TxTasks, c \in Ctxs, i \in Insts, iso \in IsoLevels : sqlalchemy_session(t, c, i, iso)
    \/ \E t \in TxTasks : sqlalchemy_transaction_connection(t)
    \/ \E t \in TxTasks : sqlalchemy_transaction_isolation(t)
    \/ \E t \in TxTasks : sqlalchemy_transaction_begin(t)
    \/ \E t \in TxTasks, exc \in SetupExcs : sqlalchemy_transaction_setup_fails(t, exc)
    \/ \E t \in TxTasks, exc \in Excs : sqlalchemy_transaction_exit(t, exc)
    \/ \E t \in TxTasks, how \in CleanupEnds : sqlalchemy_transaction_end(t, how)
    \/ \E t \in TxTasks, how \in AwaitEnds : sqlalchemy_session_exit(t, how)
    \/ \E t \in TxTasks : sqlalchemy_session_close(t)
    \/ \E t \in TxTasks : Return(t)

\* the lists of at most n rows
RowLists(n) == UNION {[1 .. m -> Rows] : m \in 0 .. n}

\* the decoders on their own: any list of rows, no call made yet
InitDecode ==
    /\ max_size = MaxCap
    /\ cache = <<>>
    /\ lru_ret = Ret("init", None, None, NoFilter, "none", None, None)
    /\ touched = NoTouch
    /\ loop_of = [c \in Ctxs |-> "none"]
    /\ engine_ctx = [c \in Ctxs |-> Nil]
    /\ sessionmaker_ctx = [c \in Ctxs |-> Nil]
    /\ private_engine = [i \in Insts |-> Nil]
    /\ engines = [c \in Ctxs |-> <<>>]
    /\ sessionmakers = [c \in Ctxs |-> <<>>]
    /\ task = [t \in Tasks |-> IdleTask]
    /\ records \in RowLists(MaxRows)
    /\ decoded = NotDecoded
    /\ kwargs = NoKwargs
    /\ agrecord = NotConstructed

NextDecode ==
    \/ \E i \in 1 .. MaxRows : CallDecodeRecord(i)
    \/ CallDecodeRecordset

\* AgtypeRecord on its own: any keyword arguments, nothing constructed yet
InitRecord ==
    /\ max_size = MaxCap
    /\ cache = <<>>
    /\ lru_ret = Ret("init", None, None, NoFilter, "none", None, None)
    /\ touched = NoTouch
    /\ loop_of = [c \in Ctxs |-> "none"]
    /\ engine_ctx = [c \in Ctxs |-> Nil]
    /\ sessionmaker_ctx = [c \in Ctxs |-> Nil]
    /\ private_engine = [i \in Insts |-> Nil]
    /\ engines = [c \in Ctxs |-> <<>>]
    /\ sessionmakers = [c \in Ctxs |-> <<>>]
    /\ task = [t \in Tasks |-> IdleTask]
    /\ records = <<>>
    /\ decoded = NotDecoded
    /\ kwargs \in Kwargs
    /\ agrecord = NotConstructed

NextRecord == Construct

(***************************************************************************)
(* Specifications                                                          *)
(***************************************************************************)
\* the cache on its own
SpecLRU == InitLRU /\ [][NextLRU]_vars

\* the connection lifecycle on its own
SpecConn == InitConn /\ [][NextConn]_vars

\* acquire and dispose on their own
SpecCache == InitConn /\ [][NextCache]_vars

\* transactions on their own
SpecTx == InitConn /\ [][NextTx]_vars

\* the agtype decoders on their own
SpecDecode == InitDecode /\ [][NextDecode]_vars

\* AgtypeRecord on its own
SpecRecord == InitRecord /\ [][NextRecord]_vars

(***************************************************************************)
(* LRUCache properties                                                     *)
(***************************************************************************)

\* this step is a call of `op` on the cache: the record of the last call names it
IsCall(op) == lru_ret'.op = op

\* the entries of s other than the one of key k, in their order
Others(s, k) == SelectSeq(s, LAMBDA e : e.k # k)

\* C9: after any sequence of get, put and clear on a cache with capacity max_size, the
\* number of entries held is at most max_size.
C9_SizeBounded == Len(cache) <= max_size

\* a put of a new key found the cache full, evicted an entry, and the cache is full again
C9_Witness ==
    /\ lru_ret.op = "put"
    /\ lru_ret.evicted # None
    /\ max_size >= 2
    /\ Len(cache) = max_size

\* C10: for every capacity and every reachable cache state, get, put and clear complete
\* without raising; get on a missing key returns None and put of a new key succeeds.
C10_NoOperationRaises ==
    /\ lru_ret.raised = "none"
    /\ (lru_ret.op = "put" => Contains(cache, lru_ret.key))

\* C11: put of a new key into a cache holding max_size entries evicts exactly the least
\* recently used entry and keeps all others in their order; hence a key that was inserted
\* is absent, and max_size keys are present, once max_size further new keys were inserted.
C11_PutEvictsLRU ==
    /\ []((touched.by = "put" /\ touched.n = max_size) =>
            (~Contains(cache, touched.k) /\ Len(cache) = max_size))
    /\ [][(IsCall("put") /\ ~Contains(cache, lru_ret'.key) /\ Len(cache) = max_size) =>
            /\ lru_ret'.raised = "none"
            /\ lru_ret'.evicted = Head(cache).k
            /\ cache' = Append(Tail(cache), [k |-> lru_ret'.key, v |-> lru_ret'.val])
       ]_vars

\* C12: get on a present key returns its stored value and makes the key the most recently
\* used: it stays present through max_size - 1 following puts of new keys and is evicted
\* by the next one; get changes no key set, no value and not the order of the other entries.
C12_GetMakesMostRecent ==
    /\ [](touched.by = "get" => (Contains(cache, touched.k) <=> touched.n < max_size))
    /\ [][IsCall("get") =>
            IF Contains(cache, lru_ret'.key)
            THEN /\ lru_ret'.value = Lookup(cache, lru_ret'.key)
                 /\ Len(cache') = Len(cache)
                 /\ cache'[Len(cache')] =
                        [k |-> lru_ret'.key, v |-> Lookup(cache, lru_ret'.key)]
                 /\ Others(cache', lru_ret'.key) = Others(cache, lru_ret'.key)
            ELSE /\ lru_ret'.value = None
                 /\ cache' = cache
       ]_vars

\* a key read by get in a cache of several entries was evicted by the max_size-th put of a
\* new key after the get, not before
C12_Witness ==
    /\ touched.by = "get"
    /\ touched.n = max_size
    /\ max_size >= 2
    /\ ~Contains(cache, touched.k)
    /\ lru_ret.op = "put"
    /\ lru_ret.evicted = touched.k

\* C13: put on a present key replaces its value, makes it the most recently used entry,
\* evicts no entry even when the cache is at capacity and leaves the number of entries
\* unchanged.
C13_PutPresentReplaces ==
    /\ [](touched.by = "replace" => (Contains(cache, touched.k) <=> touched.n < max_size))
    /\ [][(IsCall("put") /\ Contains(cache, lru_ret'.key)) =>
            /\ lru_ret'.raised = "none"
            /\ lru_ret'.evicted = None
            /\ Len(cache') = Len(cache)
            /\ cache'[Len(cache')] = [k |-> lru_ret'.key, v |-> lru_ret'.val]
            /\ Others(cache', lru_ret'.key) = Others(cache, lru_ret'.key)
       ]_vars

\* a put on a present key of a full cache of several entries has just returned
C13_Witness ==
    /\ touched.by = "replace"
    /\ touched.n = 0
    /\ max_size >= 2
    /\ Len(cache) = max_size
    /\ lru_ret.op = "put"
    /\ lru_ret.key = touched.k
    /\ Lookup(cache, touched.k) = lru_ret.val

\* C14: clear() with no predicate removes every entry; clear(predicate) removes exactly
\* the entries for which the predicate returns true and leaves every other entry present
\* with its value and its place in the recency order.
C14_ClearRemovesMatching ==
    [][IsCall("clear") =>
          IF lru_ret'.filter = NoFilter
          THEN cache' = <<>>
          ELSE /\ \A k \in Keys :
                    Contains(cache', k) <=>
                        (/\ Contains(cache, k)
                         /\ ~ApplyFilter(lru_ret'.filter, k, Lookup(cache, k)))
               /\ cache' = SelectSeq(cache, LAMBDA e : Contains(cache', e.k))
      ]_vars

\* a clear with a predicate has removed some entries and left others
C14_Witness ==
    /\ lru_ret.op = "clear"
    /\ lru_ret.filter.kind = "val_eq"
    /\ lru_ret.evicted >= 1
    /\ Len(cache) >= 2

(***************************************************************************)
(* Connection lifecycle properties                                         *)
(***************************************************************************)

\* caller t makes a call of `op` in this step
Runs(t, op) ==
    /\ task[t].pc = "idle"
    /\ task'[t].pc # "idle"
    /\ task'[t].op = op

\* a call of `op` made by caller t returns in this step
Returns(t, op) ==
    /\ task[t].pc # "done"
    /\ task'[t].pc = "done"
    /\ task'[t].op = op

\* C1: after dispose() in a context that holds a cached engine, the context holds neither
\* a cached engine nor a cached sessionmaker, the old engine's pool is closed, and
\* acquire_engine() then returns an engine other than the disposed one.
C1_DisposeClearsContext ==
    [][\A t \in Tasks :
        /\ (Returns(t, "dispose") /\ task'[t].exc = "none" /\ engine_ctx[task'[t].ctx] # Nil) =>
              /\ engine_ctx'[task'[t].ctx] = Nil
              /\ sessionmaker_ctx'[task'[t].ctx] = Nil
              /\ Deref(engines', engine_ctx[task'[t].ctx]).disposed
        /\ Runs(t, "engine") => ~Deref(engines', task'[t].ret).disposed
      ]_vars

\* the event loop caller t runs in
LoopOfCaller(t) == loop_of[task[t].ctx]

\* the event loop engine e was built in
LoopOfEngine(e) == loop_of[Deref(engines, e).ctx]

\* C2: however concurrent acquire_engine() and acquire_session_factory() calls of one
\* execution context (the tasks of one event loop) are interleaved, at most one engine built
\* there is left undisposed, and every caller ends up with that one engine.
C2_OneCanonicalEngine ==
    /\ \A e, f \in Refs(engines) :
          (/\ LoopOfEngine(e) = LoopOfEngine(f)
           /\ ~Deref(engines, e).disposed
           /\ ~Deref(engines, f).disposed) => e = f
    /\ \A t, u \in Tasks :
          (/\ task[t].pc = "done" /\ task[t].op = "engine"
           /\ task[u].pc = "done" /\ task[u].op \in {"engine", "sessionmaker"}
           /\ LoopOfCaller(t) = LoopOfCaller(u)) =>
              task[t].ret = IF task[u].op = "engine"
                            THEN task[u].ret
                            ELSE Deref(sessionmakers, task[u].ret).engine

\* the transactions that have returned control
TxDone == {t \in Tasks : task[t].op = "transaction" /\ task[t].pc = "done"}

C5_AcquireEngineIdempotent ==
    [][\A t \in Tasks : Runs(t, "engine") =>
          \A e \in Refs(engines) :
              LoopOfEngine(e) = loop_of[task'[t].ctx] =>
                  /\ task'[t].ret = e
                  /\ engines' = engines
      ]_vars

\* C6: execution contexts (event loops) are isolated: acquire_engine() and
\* acquire_session_factory() return only objects built in the caller's event loop, and a
\* call changes the cached engine and sessionmaker of no context but the caller's own.
C6_ContextsIsolated ==
    /\ [](\A t \in Tasks :
            /\ (task[t].pc = "done" /\ task[t].op = "engine") =>
                  LoopOfEngine(task[t].ret) = LoopOfCaller(t)
            /\ (task[t].pc = "done" /\ task[t].op = "sessionmaker") =>
                  /\ loop_of[Deref(sessionmakers, task[t].ret).ctx] = LoopOfCaller(t)
                  /\ LoopOfEngine(Deref(sessionmakers, task[t].ret).engine) = LoopOfCaller(t))
    /\ [][\A c \in Ctxs :
            (/\ loop_of[c] # "none"
             /\ \/ engine_ctx'[c] # engine_ctx[c]
                \/ sessionmaker_ctx'[c] # sessionmaker_ctx[c]) =>
                \E t \in Tasks, i \in Insts, iso \in IsoLevels, how \in AwaitEnds :
                    \/ sqlalchemy_async_engine(t, c, i)
                    \/ sqlalchemy_sessionmaker(t, c, i)
                    \/ sqlalchemy_dispose_async_engine(t, c, i, how)
                    \/ sqlalchemy_session(t, c, i, iso)
       ]_vars

\* a dispose() in context c on instance i comes right after another one of the same event
\* loop: that one has returned and its caller has not moved on
SecondDispose(t, c, i) ==
    \E u \in Tasks \ {t} :
        /\ task[u].pc = "done"
        /\ task[u].op = "dispose"
        /\ LoopOfCaller(u) = loop_of[c]
        /\ task[u].inst = i

\* C8: a second dispose() in a row raises nothing and changes nothing, and dispose() in a
\* context with nothing cached is a no-op.
C8_DisposeIdempotent ==
    [][\A t \in Tasks :
        (/\ Runs(t, "dispose")
         /\ \/ SecondDispose(t, task'[t].ctx, task'[t].inst)
            \/ engine_ctx[task'[t].ctx] = Nil) =>
            /\ task'[t].pc = "done"
            /\ task'[t].exc = "none"
            /\ UNCHANGED <<engine_ctx, sessionmaker_ctx, private_engine, engines, sessionmakers>>
      ]_vars

\* two dispose() calls of one instance in one event loop have returned, the context holding an engine
C8_Witness ==
    \E t, u \in Tasks :
        /\ t # u
        /\ task[t].pc = "done" /\ task[t].op = "dispose" /\ task[t].exc = "none"
        /\ task[u].pc = "done" /\ task[u].op = "dispose" /\ task[u].exc = "none"
        /\ LoopOfCaller(t) = LoopOfCaller(u)
        /\ task[t].inst = task[u].inst
        /\ engine_ctx[task[t].ctx] # Nil

\* C20: in every context and after any sequence of acquire_engine,
\* acquire_session_factory, scoped_transaction and dispose calls, a cached sessionmaker
\* implies a cached engine in the same context, and the sessionmaker is bound to exactly
\* that engine.
C20_SessionmakerImpliesEngine ==
    \A c \in Ctxs :
        sessionmaker_ctx[c] # Nil =>
            /\ engine_ctx[c] # Nil
            /\ Deref(sessionmakers, sessionmaker_ctx[c]).engine = engine_ctx[c]

\* a transaction and a dispose() have returned, and the context of the dispose() holds a
\* sessionmaker and an engine that were built in it
C20_Witness ==
    \E t, u \in Tasks :
        /\ task[t].pc = "done" /\ task[t].op = "dispose"
        /\ task[u].pc = "done" /\ task[u].op = "transaction"
        /\ sessionmaker_ctx[task[t].ctx] # Nil
        /\ Deref(sessionmakers, sessionmaker_ctx[task[t].ctx]).ctx = task[t].ctx
        /\ Deref(engines, engine_ctx[task[t].ctx]).ctx = task[t].ctx

\* C21: when several settings instances are used, the engine that sqlalchemy_async_engine
\* returns on an instance was built from the DSN and engine parameters of that instance,
\* never from those of another instance.
C21_EngineOfOwnInstance ==
    \A t \in Tasks :
        (task[t].op = "engine" /\ task[t].pc = "done") =>
            Deref(engines, task[t].ret).dsn = task[t].inst

(***************************************************************************)
(* Decoder properties                                                      *)
(***************************************************************************)

\* the names of the type tags
TagNames == {"vertex", "edge", "numeric"}

\* text t is a payload followed by one type tag
IsTagged(t) ==
    /\ Len(t) > 3
    /\ SubSeq(t, Len(t) - 2, Len(t) - 1) = DoubleColon
    /\ t[Len(t)] \in TagNames

\* the payload of a tagged text
Payload(t) == SubSeq(t, 1, Len(t) - 3)

\* C15: decode_row replaces every tag-containing string value by its decoded payload: a
\* JSON object text followed by a type tag becomes the parsed object; every value that is
\* not a string containing '::' passes through unchanged.
C15_DecodeRowDecodesTagged ==
    (decoded.op = "decode_record" /\ decoded.raised = "none") =>
        \A c \in 1 .. Len(ColNames) :
            LET v == records[decoded.arg][c]
            IN  /\ ~IsAgtype(v) => decoded.row[c] = v
                /\ (/\ IsAgtype(v)
                    /\ IsTagged(v.text)
                    /\ StartsWith(v.text, "{")
                    /\ JsonValid(Payload(v.text))) =>
                        decoded.row[c] = PyJson(Payload(v.text))

\* no value of the rows is a string containing '::'
NoTaggedString(recs) ==
    \A i \in 1 .. Len(recs) : \A c \in 1 .. Len(recs[i]) :
        recs[i][c].kind # "str" \/ ~HasSub(recs[i][c].text, DoubleColon)

\* C19: decode_batch applied to any sequence of rows, empty or not, in which no value is a
\* string containing '::' returns an empty sequence and does not decode row by row.
C19_BatchWithoutTagsIsEmpty ==
    (decoded.op = "decode_asyncio_agtype_recordset" /\ NoTaggedString(records)) =>
        /\ decoded.raised = "none"
        /\ decoded.value = PyJson(<<"[", "]">>)
        /\ decoded.row = <<>>

\* the batch decoder has returned the empty list for several rows that hold strings
C19_Witness ==
    /\ decoded.op = "decode_asyncio_agtype_recordset"
    /\ Len(records) >= 2
    /\ NoTaggedString(records)
    /\ \E i \in 1 .. Len(records) : \E c \in 1 .. Len(ColNames) : IsStr(records[i][c])
    /\ decoded.value = PyJson(<<"[", "]">>)

\* the values of the rows, in row order then column order
Flat(recs) ==
    [n \in 1 .. Len(recs) * Len(ColNames) |->
        recs[((n - 1) \div Len(ColNames)) + 1][((n - 1) % Len(ColNames)) + 1]]

\* the texts of the strings containing '::', in row order then column order
Collected(recs) ==
    LET picked == SelectSeq(Flat(recs),
                            LAMBDA v : v.kind = "str" /\ HasSub(v.text, DoubleColon))
    IN  [n \in 1 .. Len(picked) |-> picked[n].text]

\* text t is a valid JSON value followed by a single trailing ::vertex or ::edge tag
IsGraphValue(t) ==
    /\ IsTagged(t)
    /\ t[Len(t)] \in {"vertex", "edge"}
    /\ JsonValid(Payload(t))

\* every collected string of the rows is a graph value
AllGraphValues(recs) ==
    \A n \in 1 .. Len(Collected(recs)) : IsGraphValue(Collected(recs)[n])

\* the list of the JSON values of the payloads of the collected strings, in their order
PayloadList(recs) ==
    LET col == Collected(recs)
    IN  PyJson(<<"[">> \o Join([n \in 1 .. Len(col) |-> Payload(col[n])], <<",">>)
                     \o <<"]">>)

\* C22: for every batch in which each collected string is a valid JSON value followed by
\* a single trailing ::vertex or ::edge tag, decode_batch returns one element per
\* collected string, in row order then column order, each equal to the JSON value of the
\* payload of that string; text inside a payload, such as a property value containing
\* '::vertex' or '::edge', is not altered.
C22_BatchReturnsPayloads ==
    (decoded.op = "decode_asyncio_agtype_recordset" /\ AllGraphValues(records)) =>
        /\ decoded.raised = "none"
        /\ decoded.value = PayloadList(records)

(***************************************************************************)
(* AgtypeRecord properties                                                 *)
(***************************************************************************)

\* C16: every record that construction succeeds in producing has a non-empty label; a
\* missing, null or empty label is rejected at construction.
C16_LabelNeverEmpty ==
    /\ agrecord.built =>
          (agrecord.rec.label.kind = "str" /\ agrecord.rec.label.text # <<>>)
    /\ (agrecord # NotConstructed /\ kwargs.label \in {Absent, PyNone, PyStr(<<>>)}) =>
          agrecord.raised # "none"

\* C17: for every constructed record, start_id and end_id are both non-null if and only if
\* the record's kind is edge, also when the kind was given explicitly.
C17_IdsIffEdge ==
    agrecord.built =>
        ((agrecord.rec.start_id # PyNone /\ agrecord.rec.end_id # PyNone)
            <=> agrecord.type = Edge)

\* C18: an explicit kind given at construction is the record's kind whatever start_id and
\* end_id are; without one the kind is edge exactly when both are non-null and vertex when
\* either is null; is_vertex and is_edge are never both true and agree with the kind.
C18_Classification ==
    agrecord.built =>
        /\ kwargs._type # PyNone => agrecord.type = kwargs._type
        /\ kwargs._type = PyNone =>
              /\ (kwargs.start_id # PyNone /\ kwargs.end_id # PyNone) => agrecord.type = Edge
              /\ (kwargs.start_id = PyNone \/ kwargs.end_id = PyNone) => agrecord.type = Vertex
        /\ ~(agrecord.is_vertex /\ agrecord.is_edge)
        /\ agrecord.is_vertex <=> agrecord.type = Vertex
        /\ agrecord.is_edge <=> agrecord.type = Edge

\* a record was built with an explicit kind that its start_id and end_id would not give it
C18_Witness ==
    /\ agrecord.built
    /\ kwargs._type = Vertex
    /\ kwargs.start_id # PyNone
    /\ kwargs.end_id # PyNone
    /\ agrecord.type = Vertex
    /\ agrecord.is_vertex
    /\ ~agrecord.is_edge

====
